---- MODULE Spec2Model ----
(***************************************************************************)
(* Model of @adobe/aio-lib-core-auth: the credential validator, the token  *)
(* fetcher and the TTL token cache behind generateAccessToken.             *)
(*                                                                         *)
(* JavaScript strings are sequences of one-character strings, so that      *)
(* sort(), join(), template literals and startsWith() are computed, not    *)
(* assumed.  Other JavaScript values are records tagged with t.            *)
(***************************************************************************)
EXTENDS Integers, Sequences, FiniteSets, TLC

VARIABLES
    tokenCache,     \* the TTLCache: key -> [value, start, expires]
    now,            \* the clock, in milliseconds
    ticks,          \* how often the clock has advanced (bounds the model)
    OW_NAMESPACE,   \* process.env.__OW_NAMESPACE
    calls,          \* the generateAccessToken invocations, in start order
    fetchLog,       \* the calls of fetch(url, options), in order
    probe           \* a pair of credential records handed to getCacheKey

vars == <<tokenCache, now, ticks, OW_NAMESPACE, calls, fetchLog, probe>>

----------------------------------------------------------------------------
(* Bounds of the model.                                                    *)

MaxCalls == 3
MaxTicks == 2
MaxScopes == 2

----------------------------------------------------------------------------
(* JavaScript values.                                                      *)

JUndef == [t |-> "undefined"]
JNull == [t |-> "null"]
JStr(s) == [t |-> "string", v |-> s]
JNum(n) == [t |-> "number", v |-> n]
JArr(a) == [t |-> "array", v |-> a]
JObj(f) == [t |-> "object", v |-> f]

\* ToBoolean
Truthy(x) ==
    CASE x.t = "undefined" -> FALSE
      [] x.t = "null" -> FALSE
      [] x.t = "string" -> x.v # <<>>
      [] x.t = "number" -> x.v # 0
      [] OTHER -> TRUE

\* a || b
Or(a, b) == IF Truthy(a) THEN a ELSE b

\* Faulty variant: null and arrays given type names of their own.
TypeOf_kind(x) == x.t

\* typeof x
TypeOf(x) ==
    CASE x.t = "undefined" -> "undefined"
      [] x.t = "string" -> "string"
      [] x.t = "number" -> "number"
      [] OTHER -> "object"

\* Array.isArray(x)
IsArray(x) == x.t = "array"

\* Property read obj[name]; a property the object lacks reads undefined.
Get(obj, name) == IF name \in DOMAIN obj.v THEN obj.v[name] ELSE JUndef

----------------------------------------------------------------------------
(* Strings: UTF-16 code units of the characters the model uses.            *)

CharCode ==
    (","  :> 44) @@ ("-" :> 45) @@ ("1" :> 49) @@ ("2" :> 50) @@ (":" :> 58) @@
    ("a" :> 97) @@ ("b" :> 98) @@ ("c" :> 99) @@ ("d" :> 100) @@ ("e" :> 101) @@
    ("g" :> 103) @@ ("l" :> 108) @@ ("m" :> 109) @@ ("n" :> 110) @@
    ("o" :> 111) @@ ("p" :> 112) @@ ("r" :> 114) @@ ("s" :> 115) @@
    ("t" :> 116) @@ ("v" :> 118) @@ ("x" :> 120)

\* s < t in the order Array.prototype.sort uses by default (code units).
RECURSIVE StrLess(_, _)
StrLess(s, t) ==
    IF t = <<>> THEN FALSE
    ELSE IF s = <<>> THEN TRUE
    ELSE IF CharCode[Head(s)] # CharCode[Head(t)]
         THEN CharCode[Head(s)] < CharCode[Head(t)]
    ELSE StrLess(Tail(s), Tail(t))

\* String.prototype.startsWith
StartsWith(s, prefix) ==
    /\ Len(prefix) <= Len(s)
    /\ SubSeq(s, 1, Len(prefix)) = prefix

RECURSIVE Insert(_, _)
Insert(x, sorted) ==
    IF sorted = <<>> THEN <<x>>
    ELSE IF StrLess(x, Head(sorted)) THEN <<x>> \o sorted
    ELSE <<Head(sorted)>> \o Insert(x, Tail(sorted))

\* Array.prototype.sort() without a comparator, on an array of strings.
RECURSIVE Sort(_)
Sort(a) == IF a = <<>> THEN <<>> ELSE Insert(Head(a), Sort(Tail(a)))

\* Array.prototype.join(sep)
RECURSIVE Join(_, _)
Join(a, sep) ==
    IF a = <<>> THEN <<>>
    ELSE IF Len(a) = 1 THEN Head(a)
    ELSE Head(a) \o sep \o Join(Tail(a), sep)

----------------------------------------------------------------------------
(* String literals of the program.                                         *)

S_prod == <<"p", "r", "o", "d">>
S_stage == <<"s", "t", "a", "g", "e">>
S_none == <<"n", "o", "n", "e">>
S_comma == <<",">>
S_colon == <<":">>
S_commaSpace == <<",", " ">>
S_development == <<"d", "e", "v", "e", "l", "o", "p", "m", "e", "n", "t", "-">>
S_clientId == <<"c", "l", "i", "e", "n", "t", "I", "d">>
S_clientSecret == <<"c", "l", "i", "e", "n", "t", "S", "e", "c", "r", "e", "t">>
S_orgId == <<"o", "r", "g", "I", "d">>

IMS_BASE_URL_PROD == "https://ims-na1.adobelogin.com"
IMS_BASE_URL_STAGE == "https://ims-na1-stg1.adobelogin.com"

\* new TTLCache({ ttl: 5 * 60 * 1000 })
ttl == 5 * 60 * 1000

----------------------------------------------------------------------------
(* src/ims.js                                                              *)

\* Faulty variant: the selector compared without regard to case.
getImsUrl_anyCase(env) ==
    IF env \in {JStr(S_stage), JStr(<<"S", "t", "a", "g", "e">>)}
    THEN IMS_BASE_URL_STAGE ELSE IMS_BASE_URL_PROD

\* env === 'stage' ? IMS_BASE_URL_STAGE : IMS_BASE_URL_PROD
getImsUrl(env) ==
    IF env = JStr(S_stage) THEN IMS_BASE_URL_STAGE ELSE IMS_BASE_URL_PROD

\* new codes.<code>({ messageValues, sdkDetails })
AuthSDKError(code, messageValues, sdkDetails) ==
    [name |-> "AuthSDKError", code |-> code,
     messageValues |-> messageValues, sdkDetails |-> sdkDetails]

\* Faulty variant: only the first missing name reported.
missingParams_firstOnly(credentials) ==
    IF ~Truthy(credentials.clientId) THEN <<S_clientId>>
    ELSE IF ~Truthy(credentials.clientSecret) THEN <<S_clientSecret>>
    ELSE IF ~Truthy(credentials.orgId) THEN <<S_orgId>>
    ELSE <<>>

\* The names pushed to missingParams, in the order of the three checks.
missingParams(credentials) ==
    (IF Truthy(credentials.clientId) THEN <<>> ELSE <<S_clientId>>)
    \o (IF Truthy(credentials.clientSecret) THEN <<>> ELSE <<S_clientSecret>>)
    \o (IF Truthy(credentials.orgId) THEN <<>> ELSE <<S_orgId>>)

\* obj.name = value on the object that reference ref names; the other
\* objects, and the other properties of that one, stay as they are.
assign(objects, ref, name, value) ==
    [objects EXCEPT ![ref] =
        JObj([n \in DOMAIN objects[ref].v \cup {name} |->
                 IF n = name THEN value ELSE objects[ref].v[n]])]

\* Faulty variant: const credentials = params, the caller's object itself.
credentialsObject_aliased == "params"

\* const credentials = {}: the normalized fields go to a new object.
credentialsObject == "credentials"

\* The caller's object and the new one after the four assignments to
\* credentials, in order: every statement runs on the objects as the one
\* before it left them (o), and its right-hand side reads params as it is
\* at that point.
objectsAfterNormalize(params) ==
    LET c == credentialsObject
        start == {[params |-> params, credentials |-> JObj([n \in {} |-> JUndef])]}
        clientId == {assign(o, c, "clientId",
                            Or(Get(o.params, "clientId"), Get(o.params, "client_id")))
                        : o \in start}
        clientSecret == {assign(o, c, "clientSecret",
                                Or(Get(o.params, "clientSecret"),
                                   Get(o.params, "client_secret")))
                            : o \in clientId}
        orgId == {assign(o, c, "orgId",
                         Or(Get(o.params, "orgId"), Get(o.params, "org_id")))
                     : o \in clientSecret}
        scopes == {assign(o, c, "scopes", Or(Get(o.params, "scopes"), JArr(<<>>)))
                      : o \in orgId}
    IN  CHOOSE o \in scopes : TRUE

\* Faulty variant: the snake_case names not read.
normalize_camelOnly(params) ==
    [clientId |-> Get(params, "clientId"),
     clientSecret |-> Get(params, "clientSecret"),
     orgId |-> Get(params, "orgId"),
     scopes |-> Or(Get(params, "scopes"), JArr(<<>>))]

\* The credentials record built from a plain-object params: the fields of
\* the object the function has written them to.
normalize(params) ==
    CHOOSE fields \in
        { [clientId |-> Get(credentials, "clientId"),
           clientSecret |-> Get(credentials, "clientSecret"),
           orgId |-> Get(credentials, "orgId"),
           scopes |-> Get(credentials, "scopes")]
          : credentials \in {objectsAfterNormalize(params)[credentialsObject]} } : TRUE

\* { error, credentials }
getAndValidateCredentials(params) ==
    IF ~(TypeOf(params) = "object" /\ params.t # "null" /\ ~IsArray(params))
    THEN [error |-> AuthSDKError("BAD_CREDENTIALS_FORMAT", JUndef,
                                 [paramsType |-> TypeOf(params)]),
          credentials |-> JUndef]
    ELSE IF Truthy(Get(params, "scopes")) /\ ~IsArray(Get(params, "scopes"))
    THEN [error |-> AuthSDKError("BAD_SCOPES_FORMAT", JUndef,
                                 [scopesType |-> TypeOf(Get(params, "scopes"))]),
          credentials |-> JUndef]
    ELSE LET credentials == normalize(params) IN
         IF Len(missingParams(credentials)) > 0
         THEN [error |-> AuthSDKError("MISSING_PARAMETERS",
                             JStr(Join(missingParams(credentials), S_commaSpace)),
                             [clientId |-> credentials.clientId,
                              orgId |-> credentials.orgId,
                              scopes |-> credentials.scopes]),
               credentials |-> JUndef]
         ELSE [error |-> JNull, credentials |-> credentials]

\* The caller's object after getAndValidateCredentials(params): as the
\* function's statements leave it. The two early returns come before any
\* assignment; the missing-field check after the assignments only reads.
paramsAfterValidation(params) ==
    IF ~(TypeOf(params) = "object" /\ params.t # "null" /\ ~IsArray(params))
    THEN params
    ELSE IF Truthy(Get(params, "scopes")) /\ ~IsArray(Get(params, "scopes"))
    THEN params
    ELSE objectsAfterNormalize(params).params

\* The form fields appended to the URLSearchParams, in order; scope only
\* for a non-empty scope list.
formData(cred) ==
    <<  <<"grant_type", JStr(<<"client_credentials">>)>>,
        <<"client_id", cred.clientId>>,
        <<"client_secret", cred.clientSecret>>,
        <<"org_id", cred.orgId>> >>
    \o (IF Len(cred.scopes.v) > 0
        THEN << <<"scope", JStr(Join(cred.scopes.v, S_comma))>> >>
        ELSE <<>>)

\* The arguments of the one fetch() call of getAccessTokenByClientCredentials.
fetchRequest(cred) ==
    [url |-> getImsUrl(cred.env) \o "/ims/token/v2",
     method |-> "POST",
     contentType |-> "application/x-www-form-urlencoded",
     body |-> formData(cred)]

\* Number.prototype.toString() of an integer: a minus sign for a negative
\* one, then the decimal digits.
RECURSIVE Digits(_)
Digits(n) ==
    LET d == <<"0", "1", "2", "3", "4", "5", "6", "7", "8", "9">>[(n % 10) + 1]
    IN  IF n < 0 THEN <<"-">> \o Digits(0 - n)
        ELSE IF n < 10 THEN <<d>> ELSE Digits(n \div 10) \o <<d>>

\* data.error_description || data.error || `HTTP ${response.status}`
errorMessage(data, status) ==
    Or(Get(data, "error_description"),
       Or(Get(data, "error"), JStr(<<"H", "T", "T", "P", " ">> \o Digits(status))))

\* The message of the TypeError that data.error_description throws when data
\* is null: "Cannot read properties of null (reading 'error_description')".
S_cannotRead ==
    <<"C", "a", "n", "n", "o", "t", " ", "r", "e", "a", "d", " ", "p", "r", "o", "p", "e", "r", "t", "i", "e", "s", " ", "o", "f", " ">>
S_reading ==
    <<" ", "(", "r", "e", "a", "d", "i", "n", "g", " ", "'", "e", "r", "r", "o", "r", "_", "d", "e", "s", "c", "r", "i", "p", "t", "i", "o", "n", "'", ")">>

\* Faulty variant: the whole credentials put into the detail bag.
settle_allCredentials(cred, answer) ==
    IF answer.kind = "response" /\ answer.ok
    THEN [ok |-> TRUE, value |-> answer.data, error |-> JNull]
    ELSE [ok |-> FALSE, value |-> JUndef,
          error |-> AuthSDKError("GENERIC_ERROR", JStr(<<"n", "e", "t">>),
              [originalError |-> JStr(<<"n", "e", "t">>), clientId |-> cred.clientId,
               clientSecret |-> cred.clientSecret,
               orgId |-> cred.orgId, scopes |-> cred.scopes, imsEnv |-> cred.env])]

\* Faulty variant: the catch wraps every error, its own IMS_TOKEN_ERROR too.
settle_rewrapped(cred, answer) ==
    IF answer.kind = "response" /\ answer.ok
    THEN [ok |-> TRUE, value |-> answer.data, error |-> JNull]
    ELSE LET message == IF answer.kind = "throw" THEN answer.message
                        ELSE JStr(<<"[", "I", "M", "S", "_", "T", "O", "K", "E", "N",
                                    "_", "E", "R", "R", "O", "R", "]">>)
         IN  [ok |-> FALSE, value |-> JUndef,
              error |-> AuthSDKError("GENERIC_ERROR", message,
                  [originalError |-> message, clientId |-> cred.clientId,
                   orgId |-> cred.orgId, scopes |-> cred.scopes,
                   imsEnv |-> cred.env])]

\* What the try/catch around fetch() makes of the transport's answer:
\* [ok |-> TRUE, value |-> data] or [ok |-> FALSE, error |-> the error thrown].
\* The answer is [kind |-> "throw", message] when fetch() or response.json()
\* throws, and [kind |-> "response", ok, status, statusText, xDebugId, data]
\* otherwise.  Reading a property of null throws a TypeError inside the try.
settle(cred, answer) ==
    LET generic(message) ==
            AuthSDKError("GENERIC_ERROR", message,
                [originalError |-> message, clientId |-> cred.clientId,
                 orgId |-> cred.orgId, scopes |-> cred.scopes, imsEnv |-> cred.env])
    IN  IF answer.kind = "throw"
        THEN [ok |-> FALSE, value |-> JUndef, error |-> generic(answer.message)]
        ELSE IF answer.ok
        THEN [ok |-> TRUE, value |-> answer.data, error |-> JNull]
        ELSE IF answer.data.t \in {"null", "undefined"}
        THEN [ok |-> FALSE, value |-> JUndef,
              error |-> generic(JStr(S_cannotRead
                  \o (IF answer.data.t = "null" THEN <<"n", "u", "l", "l">>
                      ELSE <<"u", "n", "d", "e", "f", "i", "n", "e", "d">>)
                  \o S_reading))]
        ELSE [ok |-> FALSE, value |-> JUndef,
              error |-> AuthSDKError("IMS_TOKEN_ERROR",
                  errorMessage(answer.data, answer.status),
                  [statusCode |-> answer.status, statusText |-> answer.statusText,
                   error |-> Get(answer.data, "error"),
                   errorDescription |-> Get(answer.data, "error_description"),
                   xDebugId |-> answer.xDebugId,
                   clientId |-> cred.clientId, orgId |-> cred.orgId,
                   scopes |-> cred.scopes, imsEnv |-> cred.env])]

----------------------------------------------------------------------------
(* src/index.js                                                            *)

\* `${x}`: ToString. An array gives its elements joined by ',', a plain
\* object gives "[object Object]".
ToStr(x) ==
    CASE x.t = "string" -> x.v
      [] x.t = "number" -> Digits(x.v)
      [] x.t = "undefined" -> <<"u","n","d","e","f","i","n","e","d">>
      [] x.t = "null" -> <<"n","u","l","l">>
      [] x.t = "array" -> Join(x.v, S_comma)
      [] OTHER -> <<"[","o","b","j","e","c","t"," ","O","b","j","e","c","t","]">>

\* crypto.createHash('sha1').update(s).digest('hex'), taken to be free of
\* collisions: the digest stands for the string that was hashed.
sha1hex(s) == <<"sha1">> \o s

\* Faulty variant: the scopes joined as given, without sort().
scopeKey_unsorted(scopes) == IF Len(scopes) > 0 THEN Join(scopes, S_comma) ELSE S_none

\* scopes.length > 0 ? scopes.sort().join(',') : 'none'
scopeKey(scopes) == IF Len(scopes) > 0 THEN Join(Sort(scopes), S_comma) ELSE S_none

\* Faulty variant: the key of the older index.js, without the client secret.
getCacheKey_noSecret(cred) ==
    sha1hex(ToStr(cred.clientId) \o S_colon \o ToStr(cred.orgId) \o S_colon
            \o scopeKey(cred.scopes.v) \o S_colon \o ToStr(cred.env))

getCacheKey(cred) ==
    sha1hex(ToStr(cred.clientId) \o S_colon \o ToStr(cred.orgId) \o S_colon
            \o scopeKey(cred.scopes.v) \o S_colon \o ToStr(cred.clientSecret)
            \o S_colon \o ToStr(cred.env))

\* The array after getCacheKey ran on it: sort() sorts in place.
sortedInPlace(scopes) == IF Len(scopes.v) > 0 THEN JArr(Sort(scopes.v)) ELSE scopes

\* Faulty variant: any namespace taken for a development namespace.
ioRuntimeStageNamespace_anySet == Truthy(OW_NAMESPACE)

\* process.env.__OW_NAMESPACE && process.env.__OW_NAMESPACE.startsWith('development-')
ioRuntimeStageNamespace ==
    Truthy(OW_NAMESPACE) /\ StartsWith(OW_NAMESPACE.v, S_development)

\* imsEnv || (ioRuntimeStageNamespace() ? 'stage' : 'prod')
resolveEnv(imsEnv) ==
    Or(imsEnv, JStr(IF ioRuntimeStageNamespace THEN S_stage ELSE S_prod))

(* The TTLCache of @isaacs/ttlcache as index.js builds and calls it: only  *)
(* ttl is given, and get(key) is called without options, so get() neither  *)
(* checks nor refreshes the age; set() gives the entry a life of ttl; a     *)
(* timer of the cache deletes the entries whose life is over.               *)
NoEntries == [k \in {} |-> JUndef]

TTLCache_get(cache, key) == IF key \in DOMAIN cache THEN cache[key].value ELSE JUndef

\* Faulty variant: set() that stores nothing.
TTLCache_set_nothing(cache, key, value, t) == cache

\* Faulty variant: set() that keeps the entry a key already has.
TTLCache_set_first(cache, key, value, t) ==
    IF key \in DOMAIN cache THEN cache
    ELSE [k \in DOMAIN cache \cup {key} |->
             IF k = key THEN [value |-> value, start |-> t, expires |-> t + ttl]
             ELSE cache[k]]

\* Faulty variant: set() that files every value under one key.
TTLCache_set_oneKey(cache, key, value, t) ==
    [k \in DOMAIN cache \cup {<<"sha1">>} |->
        IF k = <<"sha1">> THEN [value |-> value, start |-> t, expires |-> t + ttl]
        ELSE cache[k]]

TTLCache_set(cache, key, value, t) ==
    [k \in DOMAIN cache \cup {key} |->
        IF k = key THEN [value |-> value, start |-> t, expires |-> t + ttl]
        ELSE cache[k]]

\* Faulty variant: clear() that removes nothing.
TTLCache_clear_nothing(cache) == cache

TTLCache_clear(cache) == NoEntries

\* What the timer's callback leaves at time t: the entries not yet due.
TTLCache_purgeStale(cache, t) ==
    [k \in {q \in DOMAIN cache : cache[q].expires > t} |-> cache[k]]

----------------------------------------------------------------------------
(* The invocations.  A call record holds the arguments, the locals of the  *)
(* async function while it awaits fetch(), and the outcome.  given is the  *)
(* params object as the caller passed it, params the same object as the    *)
(* call has left it.  raced, t1, live and sole only record history:        *)
(* whether another call with the same key was awaiting its fetch when this *)
(* one looked the key up, when a fetched token was stored, whether the     *)
(* cache has been invalidated since the call resolved (live is then FALSE) *)
(* and whether another call has stored under its key since it looked the   *)
(* key up or stored itself (sole is then FALSE).                           *)

\* The caller's object after getCacheKey sorted its scopes array in place.
afterSort(params) ==
    IF "scopes" \in DOMAIN params.v /\ Truthy(params.v.scopes)
    THEN JObj([params.v EXCEPT !.scopes = sortedInPlace(@)])
    ELSE params

newCall(params, imsEnv) ==
    [given |-> params, params |-> params, imsEnv |-> imsEnv, st |-> "rejected",
     lookedUp |-> FALSE, hit |-> FALSE, raced |-> FALSE, req |-> 0,
     credAndEnv |-> JUndef, cacheKey |-> <<>>,
     value |-> JUndef, error |-> JNull,
     t1 |-> 0, live |-> TRUE, sole |-> TRUE]

\* Faulty variant: the store moved into a finally block.
stored_always(cache, key, got, t) == TTLCache_set(cache, key, got.value, t)

\* tokenCache.set(cacheKey, token) runs only when the await did not throw.
stored(cache, key, got, t) ==
    IF got.ok THEN TTLCache_set(cache, key, got.value, t) ELSE cache

\* if (cachedToken)
cacheHit(cachedToken) == Truthy(cachedToken)

\* getAndValidateCredentials(params) as index.js is built with it: the same
\* checks, normalization and error details as in src/ims.js, but the error
\* is thrown and the credentials are the return value itself.
getAndValidateCredentialsOrThrow(params) ==
    IF ~(TypeOf(params) = "object" /\ params.t # "null" /\ ~IsArray(params))
    THEN [threw |-> TRUE,
          thrown |-> AuthSDKError("BAD_CREDENTIALS_FORMAT", JUndef,
                                  [paramsType |-> TypeOf(params)]),
          returned |-> JUndef]
    ELSE IF Truthy(Get(params, "scopes")) /\ ~IsArray(Get(params, "scopes"))
    THEN [threw |-> TRUE,
          thrown |-> AuthSDKError("BAD_SCOPES_FORMAT", JUndef,
                                  [scopesType |-> TypeOf(Get(params, "scopes"))]),
          returned |-> JUndef]
    ELSE LET credentials == normalize(params) IN
         IF Len(missingParams(credentials)) > 0
         THEN [threw |-> TRUE,
               thrown |-> AuthSDKError("MISSING_PARAMETERS",
                              JStr(Join(missingParams(credentials), S_commaSpace)),
                              [clientId |-> credentials.clientId,
                               orgId |-> credentials.orgId,
                               scopes |-> credentials.scopes]),
               returned |-> JUndef]
         ELSE [threw |-> FALSE, thrown |-> JNull, returned |-> credentials]

\* generateAccessToken(params, imsEnv), up to its return or its await of
\* fetch(): validation, key derivation, cache lookup and, on a miss, the
\* request. An error thrown by the validation leaves the async function as
\* the rejection of its promise.
generateAccessToken(params, imsEnv) ==
    LET env == resolveEnv(imsEnv)
        r == getAndValidateCredentialsOrThrow(params)
        call == newCall(params, imsEnv)
    IN  /\ UNCHANGED <<now, ticks, OW_NAMESPACE, probe>>
        /\ IF r.threw
           THEN /\ calls' = Append(calls, [call EXCEPT !.error = r.thrown])
                /\ UNCHANGED <<tokenCache, fetchLog>>
           ELSE LET credentials == [r.returned EXCEPT !.scopes = sortedInPlace(@)]
                    credAndEnv == [clientId |-> credentials.clientId,
                                   clientSecret |-> credentials.clientSecret,
                                   orgId |-> credentials.orgId,
                                   scopes |-> credentials.scopes,
                                   env |-> env]
                    cacheKey == getCacheKey([credAndEnv EXCEPT !.scopes = r.returned.scopes])
                    cachedToken == TTLCache_get(tokenCache, cacheKey)
                    looked == [call EXCEPT !.params = afterSort(params),
                                           !.lookedUp = TRUE,
                                           !.raced = \E i \in DOMAIN calls :
                                               /\ calls[i].st = "fetching"
                                               /\ calls[i].cacheKey = cacheKey,
                                           !.credAndEnv = credAndEnv,
                                           !.cacheKey = cacheKey]
                IN  IF cacheHit(cachedToken)
                    THEN /\ calls' = Append(calls,
                                [looked EXCEPT !.st = "resolved", !.hit = TRUE,
                                               !.value = cachedToken])
                         /\ UNCHANGED <<tokenCache, fetchLog>>
                    ELSE /\ fetchLog' = Append(fetchLog, fetchRequest(credAndEnv))
                         /\ calls' = Append(calls,
                                [looked EXCEPT !.st = "fetching",
                                               !.req = Len(fetchLog) + 1])
                         /\ UNCHANGED tokenCache

\* The rest of call i once its fetch() has an answer: the token is stored
\* and returned, or the error is thrown.
fetchSettles(i, answer) ==
    LET call == calls[i]
        got == settle(call.credAndEnv, answer)
    IN  /\ call.st = "fetching"
        /\ tokenCache' = stored(tokenCache, call.cacheKey, got, now)
        /\ IF got.ok
           THEN calls' = [j \in DOMAIN calls |->
                      IF j = i
                      THEN [call EXCEPT !.st = "resolved", !.value = got.value,
                                        !.t1 = now, !.live = TRUE, !.sole = TRUE]
                      ELSE IF calls[j].cacheKey = call.cacheKey
                           THEN [calls[j] EXCEPT !.sole = FALSE]
                           ELSE calls[j]]
           ELSE calls' = [calls EXCEPT ![i] =
                      [call EXCEPT !.st = "rejected", !.error = got.error]]
        /\ UNCHANGED <<fetchLog, now, ticks, OW_NAMESPACE, probe>>

invalidateCache ==
    /\ tokenCache' = TTLCache_clear(tokenCache)
    /\ calls' = [j \in DOMAIN calls |->
          IF calls[j].st = "resolved" THEN [calls[j] EXCEPT !.live = FALSE] ELSE calls[j]]
    /\ UNCHANGED <<fetchLog, now, ticks, OW_NAMESPACE, probe>>

\* Time passes. No code of the program runs: the cache keeps its entries,
\* also those whose life is over, until its timer runs.
Tick(dt) ==
    /\ ticks < MaxTicks
    /\ ticks' = ticks + 1
    /\ now' = now + dt
    /\ UNCHANGED <<tokenCache, OW_NAMESPACE, calls, fetchLog, probe>>

\* The cache's timer runs, at some moment not before the earliest expiry,
\* and deletes the entries whose life is over. Other code of the process
\* may run between the expiry and this callback.
TTLCache_timer ==
    /\ \E k \in DOMAIN tokenCache : tokenCache[k].expires <= now
    /\ tokenCache' = TTLCache_purgeStale(tokenCache, now)
    /\ UNCHANGED <<now, ticks, OW_NAMESPACE, calls, fetchLog, probe>>

----------------------------------------------------------------------------
(* The inputs the model draws from.                                        *)

c1 == <<"c", "1">>
c2 == <<"c", "2">>
s1 == <<"s", "1">>
s2 == <<"s", "2">>
o1 == <<"o", "1">>
o2 == <<"o", "2">>
sc_a == <<"a">>
sc_b == <<"b">>
sc_ab == <<"a", ",", "b">>

Params(clientId, clientSecret, orgId, scopes) ==
    JObj([clientId |-> JStr(clientId), clientSecret |-> JStr(clientSecret),
          orgId |-> JStr(orgId), scopes |-> JArr(scopes)])

\* The params of the cache scenarios: one client with its scopes in both
\* orders and without scopes.
CacheParams ==
    { Params(c1, s1, o1, <<sc_b, sc_a>>),
      Params(c1, s1, o1, <<sc_a, sc_b>>),
      Params(c1, s1, o1, <<>>) }

CacheEnvs == {JUndef}

\* The params of the two-call scenarios: clients, orgs, secrets and scope
\* lists that differ in one component, an environment hint, credentials
\* nested under __ims_oauth_s2s, scopes that are no array, and params with
\* fields missing.
PairParams ==
    { Params(c1, s1, o1, <<sc_a>>),
      Params(c2, s1, o1, <<sc_a>>),
      Params(c1, s1, o2, <<sc_a>>),
      Params(c1, s2, o1, <<sc_a>>),
      Params(c1, s1, o1, <<>>),
      Params(c1, s1, o1, <<S_none>>),
      JObj([clientId |-> JStr(c1), clientSecret |-> JStr(s1), orgId |-> JStr(o1),
            scopes |-> JArr(<<sc_a>>), __ims_env |-> JStr(S_stage)]),
      JObj([__ims_oauth_s2s |-> Params(c2, s2, o2, <<sc_a>>)]),
      JNull,
      JStr(c1),
      JArr(<<sc_a>>),
      JObj([clientId |-> JStr(c1), clientSecret |-> JStr(s1), orgId |-> JStr(o1),
            scopes |-> JStr(sc_a)]),
      JObj([clientId |-> JStr(c1), clientSecret |-> JStr(s1), orgId |-> JStr(o1),
            scopes |-> JNum(0)]),
      JObj([clientId |-> JStr(c1), scopes |-> JArr(<<sc_a>>)]),
      JObj([clientSecret |-> JStr(s1), orgId |-> JStr(o1)]) }

PairEnvs == {JUndef, JStr(<<>>), JStr(S_stage), JStr(S_prod)}

\* __OW_NAMESPACE unset, 'development-1' and 'development'.
Namespaces ==
    {JUndef, JStr(S_development \o <<"1">>), JStr(SubSeq(S_development, 1, 11))}

\* The token object in the body of the answer to request r.
Token(r) == JObj([access_token |-> JStr(<<"T">> \o Digits(r))])

Response(ok, status, statusText, data) ==
    [kind |-> "response", ok |-> ok, status |-> status, statusText |-> statusText,
     xDebugId |-> JNull, data |-> data]

Threw(message) == [kind |-> "throw", message |-> JStr(message)]

\* The answers to request r in the cache scenarios: a token object of its
\* own, a refusal, or no answer at all.
CacheAnswers(r) ==
    { Response(TRUE, 200, "OK", Token(r)),
      Response(FALSE, 401, "Unauthorized",
               JObj([error |-> JStr(<<"d", "e", "n", "i", "e", "d">>)])),
      Threw(<<"n", "e", "t">>) }

TickSteps == {1, 299999}

----------------------------------------------------------------------------
(* The cache scenarios: concurrent calls, invalidation and time.           *)

Init ==
    /\ tokenCache = NoEntries
    /\ now = 0
    /\ ticks = 0
    /\ OW_NAMESPACE = JUndef
    /\ calls = <<>>
    /\ fetchLog = <<>>
    /\ probe = <<>>

Next ==
    \/ \E params \in CacheParams, imsEnv \in CacheEnvs :
          Len(calls) < MaxCalls /\ generateAccessToken(params, imsEnv)
    \/ \E i \in DOMAIN calls : \E answer \in CacheAnswers(calls[i].req) :
          fetchSettles(i, answer)
    \/ invalidateCache
    \/ \E dt \in TickSteps : Tick(dt)
    \/ TTLCache_timer

Spec == Init /\ [][Next]_vars

----------------------------------------------------------------------------
(* The two-call scenarios: every pair of inputs, in one deployment or the  *)
(* other.                                                                  *)

MaxPairCalls == 2

PairAnswers(r) ==
    { Response(TRUE, 200, "OK", Token(r)),
      Response(FALSE, 401, "Unauthorized",
               JObj([error |-> JStr(<<"d", "e", "n", "i", "e", "d">>)])) }

PairInit ==
    /\ tokenCache = NoEntries
    /\ now = 0
    /\ ticks = 0
    /\ OW_NAMESPACE \in Namespaces
    /\ calls = <<>>
    /\ fetchLog = <<>>
    /\ probe = <<>>

PairNext ==
    \/ \E params \in PairParams, imsEnv \in PairEnvs :
          Len(calls) < MaxPairCalls /\ generateAccessToken(params, imsEnv)
    \/ \E i \in DOMAIN calls : \E answer \in PairAnswers(calls[i].req) :
          fetchSettles(i, answer)

PairSpec == PairInit /\ [][PairNext]_vars

----------------------------------------------------------------------------
(* Key derivation on its own: getCacheKey applied to two credential        *)
(* records of one client.                                                  *)

ScopeNames == {sc_a, sc_b, sc_ab, S_none}

ScopeLists == UNION {[1..n -> ScopeNames] : n \in 0..MaxScopes}

KeyCreds ==
    { [clientId |-> JStr(c1), clientSecret |-> JStr(s1), orgId |-> JStr(o1),
       scopes |-> JArr(l), env |-> e] : l \in ScopeLists, e \in {JStr(S_prod), JStr(S_stage)} }

\* getCacheKey(x) and getCacheKey(y); scopes is each array as the call left it.
deriveKeys(x, y) ==
    /\ probe = <<>>
    /\ probe' = << [cred |-> x, cacheKey |-> getCacheKey(x),
                    scopes |-> sortedInPlace(x.scopes)],
                   [cred |-> y, cacheKey |-> getCacheKey(y),
                    scopes |-> sortedInPlace(y.scopes)] >>
    /\ UNCHANGED <<tokenCache, now, ticks, OW_NAMESPACE, calls, fetchLog>>

KeyInit ==
    /\ tokenCache = NoEntries
    /\ now = 0
    /\ ticks = 0
    /\ OW_NAMESPACE = JUndef
    /\ calls = <<>>
    /\ fetchLog = <<>>
    /\ probe = <<>>

KeyNext == \E x, y \in KeyCreds : deriveKeys(x, y)

KeySpec == KeyInit /\ [][KeyNext]_vars

----------------------------------------------------------------------------
(* Validation on its own: getAndValidateCredentials applied to one input.  *)

\* A field the object does not have.
Absent == [t |-> "absent"]

NoFields == [n \in {} |-> JUndef]

Field1(name, value) == IF value = Absent THEN NoFields ELSE (name :> value)

CamelValues(x) == {Absent, JStr(<<>>), JStr(x)}
SnakeValues(x) == {Absent, JStr(x)}

ScopesValues ==
    { Absent, JArr(<<>>), JArr(<<sc_b, sc_a>>), JStr(sc_a), JStr(<<>>),
      JNum(1), JNum(0), JNull, JObj([scope |-> JStr(sc_a)]) }

\* Inputs that are no plain object.
ValidOthers == {JUndef, JNull, JArr(<<sc_a>>), JStr(c1), JNum(1)}

\* getAndValidateCredentials(params) with the result and the caller's object
\* after the call.
validate(params) ==
    /\ probe = <<>>
    /\ probe' = << [params |-> params,
                    result |-> getAndValidateCredentials(params),
                    after |-> paramsAfterValidation(params)] >>
    /\ UNCHANGED <<tokenCache, now, ticks, OW_NAMESPACE, calls, fetchLog>>

ValidInit ==
    /\ tokenCache = NoEntries
    /\ now = 0
    /\ ticks = 0
    /\ OW_NAMESPACE = JUndef
    /\ calls = <<>>
    /\ fetchLog = <<>>
    /\ probe = <<>>

ValidNext ==
    \/ \E params \in ValidOthers : validate(params)
    \/ \E ci \in CamelValues(c1), cs \in CamelValues(s1), oi \in CamelValues(o1),
          c_i \in SnakeValues(c2), c_s \in SnakeValues(s2), o_i \in SnakeValues(o2),
          sc \in ScopesValues :
          validate(JObj(Field1("clientId", ci) @@ Field1("clientSecret", cs)
                        @@ Field1("orgId", oi) @@ Field1("client_id", c_i)
                        @@ Field1("client_secret", c_s) @@ Field1("org_id", o_i)
                        @@ Field1("scopes", sc)))

ValidSpec == ValidInit /\ [][ValidNext]_vars

----------------------------------------------------------------------------
(* The uncached entry point called on its own.                             *)

S_invalid == <<"i", "n", "v", "a", "l", "i", "d">>
S_Stage == <<"S", "t", "a", "g", "e">>

\* The env property of the argument; undefined when it is left out.
DirectEnvs ==
    {JUndef, JStr(<<>>), JStr(S_stage), JStr(S_prod), JStr(S_Stage), JStr(S_invalid)}

\* The scopes property of the argument; undefined when it is left out.
DirectScopes == {JUndef, JArr(<<>>), JArr(<<sc_b, sc_a>>)}

DirectCreds ==
    { [clientId |-> JStr(ci), clientSecret |-> JStr(cs), orgId |-> JStr(oi),
       scopes |-> sc, env |-> e] :
      ci \in {c1, c2}, cs \in {s1, s2}, oi \in {o1, o2},
      sc \in DirectScopes, e \in DirectEnvs }

MaxDirectCalls == 2

\* No answer yet.
Pending == [kind |-> "none"]

\* Faulty variant: the uncached entry point made to look into the cache and
\* to return what it finds there.
getAccessTokenByClientCredentials_cached(arg) ==
    LET cred == [arg EXCEPT !.scopes = IF @ = JUndef THEN JArr(<<>>) ELSE @]
        cachedToken == TTLCache_get(tokenCache, getCacheKey(cred))
        call == [arg |-> arg, cred |-> cred, req |-> 0, st |-> "resolved",
                 answer |-> Pending, value |-> cachedToken, error |-> JNull]
    IN  /\ Len(probe) < MaxDirectCalls
        /\ IF Truthy(cachedToken)
           THEN /\ probe' = Append(probe, call)
                /\ UNCHANGED fetchLog
           ELSE /\ fetchLog' = Append(fetchLog, fetchRequest(cred))
                /\ probe' = Append(probe,
                      [call EXCEPT !.req = Len(fetchLog) + 1, !.st = "fetching",
                                   !.value = JUndef])
        /\ UNCHANGED <<tokenCache, now, ticks, OW_NAMESPACE, calls>>

\* getAccessTokenByClientCredentials({ clientId, clientSecret, orgId,
\* scopes = [], env }) up to its await of fetch().  probe holds the direct
\* calls in the order they were made.
getAccessTokenByClientCredentials(arg) ==
    LET cred == [arg EXCEPT !.scopes = IF @ = JUndef THEN JArr(<<>>) ELSE @]
    IN  /\ Len(probe) < MaxDirectCalls
        /\ fetchLog' = Append(fetchLog, fetchRequest(cred))
        /\ probe' = Append(probe,
              [arg |-> arg, cred |-> cred, req |-> Len(fetchLog) + 1,
               st |-> "fetching", answer |-> Pending,
               value |-> JUndef, error |-> JNull])
        /\ UNCHANGED <<tokenCache, now, ticks, OW_NAMESPACE, calls>>

\* The rest of direct call i once its fetch() has an answer: the body is
\* returned or the error is thrown.
directSettles(i, answer) ==
    LET call == probe[i]
        got == settle(call.cred, answer)
    IN  /\ call.st = "fetching"
        /\ probe' = [probe EXCEPT ![i] =
              [call EXCEPT !.st = IF got.ok THEN "resolved" ELSE "rejected",
                           !.answer = answer,
                           !.value = got.value, !.error = got.error]]
        /\ UNCHANGED <<tokenCache, now, ticks, OW_NAMESPACE, calls, fetchLog>>

DirectInit ==
    /\ tokenCache = NoEntries
    /\ now = 0
    /\ ticks = 0
    /\ OW_NAMESPACE = JUndef
    /\ calls = <<>>
    /\ fetchLog = <<>>
    /\ probe = <<>>

\* One direct call.
DirectNext ==
    \E arg \in DirectCreds : probe = <<>> /\ getAccessTokenByClientCredentials(arg)

DirectSpec == DirectInit /\ [][DirectNext]_vars

----------------------------------------------------------------------------
(* Cached and direct calls side by side, with every kind of answer.        *)

MaxFetchCalls == 2

S_denied == <<"d", "e", "n", "i", "e", "d">>
S_badClient == <<"b", "a", "d", " ", "c", "l", "i", "e", "n", "t">>

\* The arguments of the direct calls: the client of the cached calls, with
\* and without scopes and environment.
FetchCreds ==
    { [clientId |-> JStr(c1), clientSecret |-> JStr(s1), orgId |-> JStr(o1),
       scopes |-> JArr(<<sc_a>>), env |-> JStr(S_prod)],
      [clientId |-> JStr(c1), clientSecret |-> JStr(s1), orgId |-> JStr(o1),
       scopes |-> JUndef, env |-> JUndef] }

\* The params of the cached calls: valid ones and one for each error of the
\* validation.
FetchParams ==
    { Params(c1, s1, o1, <<sc_a>>),
      JObj([clientId |-> JStr(c1), clientSecret |-> JStr(s1)]),
      JObj([clientId |-> JStr(c1), clientSecret |-> JStr(s1), orgId |-> JStr(o1),
            scopes |-> JStr(sc_a)]),
      JNull }

\* The answers to request r: a token object, refusals whose body has both
\* error fields, an empty description, one field, no field or is null, and
\* no answer at all.
FetchAnswers(r) ==
    { Response(TRUE, 200, "OK", Token(r)),
      Response(FALSE, 400, "Bad Request",
               JObj([error |-> JStr(S_denied), error_description |-> JStr(S_badClient)])),
      Response(FALSE, 400, "Bad Request",
               JObj([error |-> JStr(S_denied), error_description |-> JStr(<<>>)])),
      Response(FALSE, 401, "Unauthorized", JObj([error |-> JStr(S_denied)])),
      Response(FALSE, 500, "Internal Server Error", JObj(NoFields)),
      Response(FALSE, 503, "Service Unavailable", JNull),
      Threw(<<"n", "e", "t">>) }

FetchInit ==
    /\ tokenCache = NoEntries
    /\ now = 0
    /\ ticks = 0
    /\ OW_NAMESPACE = JUndef
    /\ calls = <<>>
    /\ fetchLog = <<>>
    /\ probe = <<>>

FetchNext ==
    \/ \E params \in FetchParams :
          Len(calls) < MaxFetchCalls /\ generateAccessToken(params, JUndef)
    \/ \E i \in DOMAIN calls : \E answer \in FetchAnswers(calls[i].req) :
          fetchSettles(i, answer)
    \/ \E arg \in FetchCreds : getAccessTokenByClientCredentials(arg)
    \/ \E i \in DOMAIN probe : \E answer \in FetchAnswers(probe[i].req) :
          directSettles(i, answer)

FetchSpec == FetchInit /\ [][FetchNext]_vars

----------------------------------------------------------------------------
(* Invalidation while requests are in flight.                              *)

MaxRaceCalls == 3

\* invalidateCache(), with a note in probe of how many calls had started and
\* how many requests had been made when it returned.
invalidateCacheNoted ==
    /\ tokenCache' = TTLCache_clear(tokenCache)
    /\ calls' = [j \in DOMAIN calls |->
          IF calls[j].st = "resolved" THEN [calls[j] EXCEPT !.live = FALSE] ELSE calls[j]]
    /\ probe' = << [calls |-> Len(calls), requests |-> Len(fetchLog)] >>
    /\ UNCHANGED <<fetchLog, now, ticks, OW_NAMESPACE>>

RaceInit ==
    /\ tokenCache = NoEntries
    /\ now = 0
    /\ ticks = 0
    /\ OW_NAMESPACE = JUndef
    /\ calls = <<>>
    /\ fetchLog = <<>>
    /\ probe = <<>>

RaceNext ==
    \/ Len(calls) < MaxRaceCalls
          /\ generateAccessToken(Params(c1, s1, o1, <<sc_a>>), JUndef)
    \/ \E i \in DOMAIN calls : \E answer \in PairAnswers(calls[i].req) :
          fetchSettles(i, answer)
    \/ invalidateCacheNoted

RaceSpec == RaceInit /\ [][RaceNext]_vars

----------------------------------------------------------------------------
(* One client under several environment selectors, with response bodies of *)
(* every kind.                                                             *)

MaxBodyCalls == 3

\* The imsEnv argument: left out, 'prod' and a string that names no
\* environment.
BodyEnvs == {JUndef, JStr(S_prod), JStr(S_invalid)}

\* The JSON bodies of a 200 answer to request r: a token object, null, 0
\* and the empty string.
Bodies(r) == {Token(r), JNull, JNum(0), JStr(<<>>)}

BodyAnswers(r) ==
    {Response(TRUE, 200, "OK", v) : v \in Bodies(r)}
    \cup {Response(FALSE, 401, "Unauthorized", JObj([error |-> JStr(S_denied)]))}

BodyInit ==
    /\ tokenCache = NoEntries
    /\ now = 0
    /\ ticks = 0
    /\ OW_NAMESPACE = JUndef
    /\ calls = <<>>
    /\ fetchLog = <<>>
    /\ probe = <<>>

BodyNext ==
    \/ \E imsEnv \in BodyEnvs :
          /\ Len(calls) < MaxBodyCalls
          /\ generateAccessToken(Params(c1, s1, o1, <<sc_a>>), imsEnv)
    \/ \E i \in DOMAIN calls : \E answer \in BodyAnswers(calls[i].req) :
          fetchSettles(i, answer)
    \/ invalidateCache

BodySpec == BodyInit /\ [][BodyNext]_vars

----------------------------------------------------------------------------
(* The claims.  The words of the claims, not of the code: five minutes, a  *)
(* token object, the call that has just started.                           *)

FiveMinutes == 5 * 60 * 1000

\* This step starts a call; Latest is that call as the step leaves it.
Started == Len(calls') = Len(calls) + 1
Latest == calls'[Len(calls')]

\* Call c fetched a token object and stored it.
Fetched(c) == c.st = "resolved" /\ c.req # 0 /\ c.value.t = "object"

\* Identical credentials, environment and scopes.
SameInputs(c, d) ==
    /\ c.lookedUp /\ d.lookedUp
    /\ c.given = d.given
    /\ c.credAndEnv.env = d.credAndEnv.env

\* This step is a miss: the call that starts sends its own request and
\* awaits the answer.
StartsFetch ==
    /\ Latest.st = "fetching" /\ ~Latest.hit
    /\ Len(fetchLog') = Len(fetchLog) + 1
    /\ Latest.req = Len(fetchLog')

\* The call that starts repeats call c: identical credentials, environment
\* and scopes.
Repeats(c) == c.lookedUp /\ Latest.given = c.given /\ Latest.imsEnv = c.imsEnv

\* The call that starts is served from the cache with the token of call i,
\* without a request.
ServedFrom(i) ==
    /\ Latest.st = "resolved" /\ Latest.hit
    /\ Latest.value = calls[i].value
    /\ Latest.req = 0
    /\ fetchLog' = fetchLog

\* Call c's fetch failed.
FailedFetch(c) == c.st = "rejected" /\ c.req # 0

\* Call i's fetch settles in this step.
Settles(i) == calls[i].st = "fetching" /\ calls'[i].st # "fetching"

\* b is a permutation of a.
PermOf(a, b) ==
    /\ Len(a) = Len(b)
    /\ \E f \in [1..Len(a) -> 1..Len(a)] :
          /\ \A m, n \in 1..Len(a) : f[m] = f[n] => m = n
          /\ \A m \in 1..Len(a) : b[m] = a[f[m]]

(* C1, as stated: a call that repeats a successful call after it finished, *)
(* less than five minutes after its token was stored and with no           *)
(* invalidateCache in between, returns that call's token object without a  *)
(* request of its own.                                                     *)
C1_AsStated ==
    [][ Started =>
          \A i \in DOMAIN calls :
             ( /\ Fetched(calls[i]) /\ Repeats(calls[i])
               /\ calls[i].live
               /\ now < calls[i].t1 + FiveMinutes )
             => ServedFrom(i)
      ]_vars

(* C1, amended: a call that repeats a successful call after it finished,   *)
(* less than five minutes after its token was stored, with no              *)
(* invalidateCache in between and with no other call having stored under   *)
(* the same key in between, returns that call's token object without a     *)
(* request of its own: the two calls together issue exactly one request.   *)
C1_CachedWithinTTL ==
    [][ Started =>
          \A i \in DOMAIN calls :
             ( /\ Fetched(calls[i]) /\ Repeats(calls[i])
               /\ calls[i].live /\ calls[i].sole
               /\ now < calls[i].t1 + FiveMinutes )
             => ServedFrom(i)
      ]_vars

\* A call fetched a token, time passed, and the same call made again was
\* served that token from the cache: one request for the two.
C1_Witness ==
    /\ Len(calls) = 2 /\ Len(fetchLog) = 1
    /\ Fetched(calls[1]) /\ calls[1].live /\ calls[1].sole
    /\ SameInputs(calls[1], calls[2])
    /\ calls[2].hit /\ calls[2].req = 0 /\ calls[2].value = calls[1].value
    /\ calls[1].value = Token(1)
    /\ now > calls[1].t1 /\ now < calls[1].t1 + FiveMinutes

(* C2: invalidateCache() can always be called, also on an empty cache, and *)
(* leaves the cache without any entry; a call that starts on the cache as  *)
(* invalidateCache() left it misses and sends a new request, whatever its  *)
(* credentials.                                                            *)
C2_InvalidateClearsAll ==
    [][ /\ ENABLED invalidateCache
        /\ invalidateCache => DOMAIN tokenCache' = {}
        /\ (DOMAIN tokenCache = {} /\ Started /\ Latest.lookedUp) => StartsFetch
      ]_vars

\* A token was fetched, the cache was invalidated within the token's five
\* minutes, and the same call made again had to fetch.
C2_Witness ==
    \E i, j \in DOMAIN calls :
        /\ i < j
        /\ Fetched(calls[i]) /\ ~calls[i].live
        /\ SameInputs(calls[i], calls[j])
        /\ calls[j].req # 0
        /\ now < calls[i].t1 + FiveMinutes

(* C3: a call whose fetch fails, by a non-success status or by an          *)
(* exception of the transport, leaves the cache as it was, in the step     *)
(* that sends its request and in the step that rejects it; and the same    *)
(* call made again, when nothing was stored under its key in between,      *)
(* misses and sends another request.                                       *)
C3_FailedFetchNotCached ==
    [][ /\ \A i \in DOMAIN calls :
              (Settles(i) /\ calls'[i].st = "rejected") => tokenCache' = tokenCache
        /\ (Started /\ Latest.st = "fetching") => tokenCache' = tokenCache
        /\ Started =>
              \A i \in DOMAIN calls :
                 (FailedFetch(calls[i]) /\ Repeats(calls[i]) /\ calls[i].sole)
                 => StartsFetch
      ]_vars

\* The same call was made three times, each after the one before had
\* failed, once by a status and once by an exception: three requests, and
\* nothing in the cache.
C3_Witness ==
    /\ Len(calls) = 3 /\ Len(fetchLog) = 3
    /\ FailedFetch(calls[1]) /\ calls[1].error.code = "IMS_TOKEN_ERROR"
    /\ FailedFetch(calls[2]) /\ calls[2].error.code = "GENERIC_ERROR"
    /\ calls[3].st = "fetching"
    /\ SameInputs(calls[1], calls[2]) /\ SameInputs(calls[2], calls[3])
    /\ ~calls[2].raced /\ ~calls[3].raced
    /\ DOMAIN tokenCache = {}

\* What the claim C4 calls a failed validation, and the error that
\* corresponds to each case.
NotPlainObject(params) == params.t # "object"
ScopesNotArray(params) ==
    /\ params.t = "object" /\ "scopes" \in DOMAIN params.v
    /\ params.v.scopes.t # "array"
FieldMissing(params) ==
    /\ params.t = "object"
    /\ \E f \in {"clientId", "clientSecret", "orgId"} : f \notin DOMAIN params.v

FailsValidation(params) ==
    NotPlainObject(params) \/ ScopesNotArray(params) \/ FieldMissing(params)

CorrespondingError(params) ==
    IF NotPlainObject(params) THEN "BAD_CREDENTIALS_FORMAT"
    ELSE IF ScopesNotArray(params) THEN "BAD_SCOPES_FORMAT"
    ELSE "MISSING_PARAMETERS"

(* C4, as stated: a call whose input is not a plain object, whose scopes   *)
(* is not an array or which lacks clientId, clientSecret or orgId rejects  *)
(* with the corresponding typed error, sends no request and neither reads  *)
(* nor changes the cache.                                                  *)
C4_AsStated ==
    [][ (Started /\ FailsValidation(Latest.given)) =>
          /\ Latest.st = "rejected"
          /\ Latest.error # JNull
          /\ Latest.error.code = CorrespondingError(Latest.given)
          /\ ~Latest.lookedUp
          /\ fetchLog' = fetchLog
          /\ tokenCache' = tokenCache
      ]_vars

(* C5, as stated: a cache entry lives five minutes from the moment it was *)
(* stored. A call's lookup changes no entry, so a hit extends no expiry; a *)
(* lookup of the key less than five minutes after the latest store under   *)
(* it returns the stored token without a request; a lookup five minutes or *)
(* more after that store misses and sends a new request.                   *)
C5_AsStated ==
    [][ Started =>
          /\ tokenCache' = tokenCache
          /\ \A i \in DOMAIN calls :
                ( /\ Fetched(calls[i]) /\ Repeats(calls[i])
                  /\ calls[i].live /\ calls[i].sole )
                => IF now < calls[i].t1 + FiveMinutes
                   THEN ServedFrom(i)
                   ELSE StartsFetch
      ]_vars

(* C6: a call that looks its key up while another call with the same key   *)
(* awaits its fetch, and finds no entry, sends a request of its own; every *)
(* call whose fetch succeeds stores its response under its key, over       *)
(* whatever is there; so every entry of the cache holds the response of    *)
(* the call that stored under its key last.                                *)
C6_LastStored ==
    \A k \in DOMAIN tokenCache :
        \E i \in DOMAIN calls :
            /\ calls[i].cacheKey = k
            /\ calls[i].st = "resolved" /\ calls[i].req # 0 /\ calls[i].sole
            /\ tokenCache[k].value = calls[i].value

C6_NoDedupLastWriteWins ==
    /\ []C6_LastStored
    /\ [][ /\ ( /\ Started /\ Latest.lookedUp /\ Latest.raced
                /\ Latest.cacheKey \notin DOMAIN tokenCache )
              => /\ StartsFetch
                 /\ \A i \in DOMAIN calls : calls[i].req # Latest.req
           /\ \A i \in DOMAIN calls :
                 (Settles(i) /\ calls'[i].st = "resolved") =>
                    /\ calls[i].cacheKey \in DOMAIN tokenCache'
                    /\ tokenCache'[calls[i].cacheKey].value = calls'[i].value
                    /\ tokenCache'[calls[i].cacheKey].start = now
         ]_vars

\* Two calls with one key both missed, sent a request each, and both
\* stored: the second call first, the first call last, whose response is
\* the entry.
C6_Witness ==
    /\ Len(calls) = 2 /\ Len(fetchLog) = 2
    /\ calls[1].cacheKey = calls[2].cacheKey
    /\ calls[2].raced
    /\ Fetched(calls[1]) /\ Fetched(calls[2])
    /\ calls[1].value = Token(1) /\ calls[2].value = Token(2)
    /\ calls[1].sole /\ ~calls[2].sole
    /\ tokenCache[calls[1].cacheKey].value = Token(1)

\* Calls c and d differ in nothing but the order of their scopes.
Permuted(c, d) ==
    /\ c.lookedUp /\ d.lookedUp
    /\ c.credAndEnv.clientId = d.credAndEnv.clientId
    /\ c.credAndEnv.clientSecret = d.credAndEnv.clientSecret
    /\ c.credAndEnv.orgId = d.credAndEnv.orgId
    /\ c.credAndEnv.env = d.credAndEnv.env
    /\ PermOf(c.given.v.scopes.v, d.given.v.scopes.v)

(* C7: calls that differ in nothing but the order of their scopes derive   *)
(* the same cache key; and a call that starts after a successful call with *)
(* the scopes in another order, while that call's token is the entry of    *)
(* the key, is a cache hit that returns that token.                        *)
C7_SameKey ==
    \A i, j \in DOMAIN calls :
        Permuted(calls[i], calls[j]) => calls[i].cacheKey = calls[j].cacheKey

C7_ScopeOrderIrrelevant ==
    /\ []C7_SameKey
    /\ [][ Started =>
             \A i \in DOMAIN calls :
                ( /\ Fetched(calls[i]) /\ Latest.lookedUp
                  /\ Permuted(calls[i], Latest)
                  /\ calls[i].live /\ calls[i].sole
                  /\ now < calls[i].t1 + FiveMinutes )
                => ServedFrom(i)
         ]_vars

\* A call with scopes b, a fetched a token, and a call with scopes a, b was
\* served it from the cache.
C7_Witness ==
    /\ Len(calls) = 2 /\ Len(fetchLog) = 1
    /\ calls[1].given.v.scopes.v = <<sc_b, sc_a>>
    /\ calls[2].given.v.scopes.v = <<sc_a, sc_b>>
    /\ Fetched(calls[1])
    /\ calls[2].hit /\ calls[2].value = calls[1].value
    /\ calls[1].cacheKey = calls[2].cacheKey

\* The two records handed to getCacheKey agree in clientId, clientSecret,
\* orgId and environment.
SameClient(x, y) ==
    /\ x.clientId = y.clientId /\ x.clientSecret = y.clientSecret
    /\ x.orgId = y.orgId /\ x.env = y.env

(* C8, as stated: for one clientId, clientSecret, orgId and environment    *)
(* the key derived for the empty scope list differs from the key derived   *)
(* for every scope list that is not empty, the list of the one scope       *)
(* 'none' included.                                                        *)
C8_AsStated ==
    ( /\ probe # <<>>
      /\ SameClient(probe[1].cred, probe[2].cred)
      /\ probe[1].cred.scopes.v = <<>>
      /\ probe[2].cred.scopes.v # <<>> )
    => probe[1].cacheKey # probe[2].cacheKey

\* clientId, orgId, environment and the set of scopes of call c.
Tuple(c) ==
    << c.credAndEnv.clientId, c.credAndEnv.orgId, c.credAndEnv.env,
       {c.credAndEnv.scopes.v[n] : n \in DOMAIN c.credAndEnv.scopes.v} >>

(* C9, as stated: two calls that differ in clientId, orgId, environment or *)
(* the set of their scopes derive different keys; no call is served the    *)
(* token that a call with another tuple fetched; and the first call of     *)
(* each tuple sends a request of its own.                                  *)
C9_AsStated ==
    \A i, j \in DOMAIN calls :
        ( /\ calls[i].lookedUp /\ calls[j].lookedUp
          /\ Tuple(calls[i]) # Tuple(calls[j]) )
        => /\ calls[i].cacheKey # calls[j].cacheKey
           /\ ~( /\ i < j /\ Fetched(calls[i])
                 /\ calls[j].hit /\ calls[j].value = calls[i].value )
           /\ (i < j /\ \A h \in 1..(j - 1) :
                           calls[h].lookedUp => Tuple(calls[h]) # Tuple(calls[j]))
              => calls[j].req # 0

\* The environment of call c by the order of the claim C10: the argument,
\* else the hint in the input, else the default of the namespace, else prod.
ResolvedInOrder(c) ==
    IF c.imsEnv.t = "string" /\ c.imsEnv.v # <<>> THEN c.imsEnv
    ELSE IF "__ims_env" \in DOMAIN c.given.v THEN c.given.v.__ims_env
    ELSE IF OW_NAMESPACE.t = "string" /\ StartsWith(OW_NAMESPACE.v, S_development)
         THEN JStr(S_stage)
    ELSE JStr(S_prod)

(* C10, as stated: every call that passes validation uses the environment  *)
(* given as argument; without one, the environment its input names under   *)
(* __ims_env; without that, the default of the deployment's namespace; and *)
(* prod otherwise; and sends its request to that environment's endpoint.   *)
C10_AsStated ==
    \A i \in DOMAIN calls :
        calls[i].lookedUp =>
            /\ calls[i].credAndEnv.env = ResolvedInOrder(calls[i])
            /\ calls[i].req # 0 =>
                  fetchLog[calls[i].req].url
                     = getImsUrl(ResolvedInOrder(calls[i])) \o "/ims/token/v2"

\* The environment argument of call c is omitted or falsy.
NoEnvArgument(c) == c.imsEnv.t = "undefined" \/ c.imsEnv = JStr(<<>>)

\* __OW_NAMESPACE is set and begins with 'development-'.
DevelopmentNamespace ==
    /\ OW_NAMESPACE.t = "string"
    /\ Len(OW_NAMESPACE.v) >= 12
    /\ \A n \in 1..12 : OW_NAMESPACE.v[n] = S_development[n]

(* C11: a call without an environment argument, or with a falsy one such   *)
(* as the empty string, uses stage exactly when __OW_NAMESPACE is set and  *)
(* begins with 'development-', and prod otherwise; a call with a truthy    *)
(* argument uses the argument, whatever __OW_NAMESPACE holds.              *)
C11_EnvDefault ==
    \A i \in DOMAIN calls :
        calls[i].lookedUp =>
            IF NoEnvArgument(calls[i])
            THEN /\ DevelopmentNamespace => calls[i].credAndEnv.env = JStr(S_stage)
                 /\ ~DevelopmentNamespace => calls[i].credAndEnv.env = JStr(S_prod)
            ELSE calls[i].credAndEnv.env = calls[i].imsEnv

\* In the namespace 'development-1' a call with the empty string for
\* environment went to stage and a call with 'prod' went to prod.
C11_Witness ==
    /\ DevelopmentNamespace
    /\ Len(calls) = 2
    /\ calls[1].lookedUp /\ calls[1].imsEnv = JStr(<<>>)
    /\ calls[1].credAndEnv.env = JStr(S_stage)
    /\ calls[2].lookedUp /\ calls[2].imsEnv = JStr(S_prod)
    /\ calls[2].credAndEnv.env = JStr(S_prod)

\* The object the claim C12 takes the credentials of call c from.
CredentialSource(c) ==
    IF "__ims_oauth_s2s" \in DOMAIN c.given.v THEN c.given.v.__ims_oauth_s2s
    ELSE c.given

\* Object x carries a truthy value under one of the two names.
Carries(x, camel, snake) ==
    \/ camel \in DOMAIN x.v /\ Truthy(x.v[camel])
    \/ snake \in DOMAIN x.v /\ Truthy(x.v[snake])

\* Object x carries clientId, clientSecret and orgId.
Complete(x) ==
    /\ Carries(x, "clientId", "client_id")
    /\ Carries(x, "clientSecret", "client_secret")
    /\ Carries(x, "orgId", "org_id")

\* The value of the form field name in the request of call c.
Field(c, name) ==
    LET body == fetchLog[c.req].body
        at == {n \in DOMAIN body : body[n][1] = name}
    IN  IF at = {} THEN JUndef ELSE body[CHOOSE n \in at : TRUE][2]

(* C12, as stated: a call whose input holds an object under                *)
(* __ims_oauth_s2s takes its credentials from that object, any other call  *)
(* from the input's own fields; credentials that lack a field reject the   *)
(* call with MISSING_PARAMETERS, complete ones pass validation and are the *)
(* ones sent in the request.                                               *)
C12_AsStated ==
    \A i \in DOMAIN calls :
        LET c == calls[i]
            from == CredentialSource(c)
        IN  ( /\ c.given.t = "object" /\ from.t = "object"
              /\ ("scopes" \in DOMAIN from.v => from.v.scopes.t = "array") )
            => IF Complete(from)
               THEN /\ c.lookedUp
                    /\ c.credAndEnv.clientId = Or(Get(from, "clientId"), Get(from, "client_id"))
                    /\ c.req # 0 =>
                          /\ Field(c, "client_id") = Or(Get(from, "clientId"), Get(from, "client_id"))
                          /\ Field(c, "client_secret")
                                = Or(Get(from, "clientSecret"), Get(from, "client_secret"))
                          /\ Field(c, "org_id") = Or(Get(from, "orgId"), Get(from, "org_id"))
               ELSE /\ c.st = "rejected"
                    /\ c.error # JNull /\ c.error.code = "MISSING_PARAMETERS"

\* The input and the outcome of the one validation of ValidSpec.
Input == probe[1].params
Outcome == probe[1].result

\* The input is an object that is neither null nor an array.
PlainObject(x) == x.t = "object"

\* Object x has a field of that name.
Has(x, name) == name \in DOMAIN x.v

\* Value v is truthy and is what x holds under one of the two names.
Populated(v, x, camel, snake) ==
    /\ Truthy(v)
    /\ \/ Has(x, camel) /\ v = x.v[camel]
       \/ Has(x, snake) /\ v = x.v[snake]

(* C13: an input object that carries a truthy client id, client secret and *)
(* org id, under the camelCase or the snake_case name, and whose scopes is *)
(* absent or an array, validates without an error; the record returned has *)
(* the three fields populated from the input and scopes equal to the given *)
(* array, or to [] when the input has no scopes.                           *)
C13_ValidAccepted ==
    ( /\ probe # <<>>
      /\ PlainObject(Input)
      /\ Complete(Input)
      /\ (Has(Input, "scopes") => Input.v.scopes.t = "array") )
    =>     /\ Outcome.error = JNull
           /\ Populated(Outcome.credentials.clientId, Input, "clientId", "client_id")
           /\ Populated(Outcome.credentials.clientSecret, Input,
                        "clientSecret", "client_secret")
           /\ Populated(Outcome.credentials.orgId, Input, "orgId", "org_id")
           /\ Outcome.credentials.scopes =
                 (IF Has(Input, "scopes") THEN Input.v.scopes ELSE JArr(<<>>))

\* Snake_case credentials without scopes were validated and came back with
\* scopes [].
C13_Witness ==
    /\ probe # <<>>
    /\ Input = JObj([client_id |-> JStr(c2), client_secret |-> JStr(s2),
                     org_id |-> JStr(o2)])
    /\ Outcome.error = JNull
    /\ Outcome.credentials.clientId = JStr(c2)
    /\ Outcome.credentials.scopes = JArr(<<>>)

\* The names of the fields object x carries under neither name, in the order
\* clientId, clientSecret, orgId, joined as the message lists them.
MissingNames(x) ==
    Join((IF Carries(x, "clientId", "client_id") THEN <<>> ELSE <<S_clientId>>)
         \o (IF Carries(x, "clientSecret", "client_secret") THEN <<>>
             ELSE <<S_clientSecret>>)
         \o (IF Carries(x, "orgId", "org_id") THEN <<>> ELSE <<S_orgId>>),
         S_commaSpace)

\* The outcome is one MISSING_PARAMETERS error that lists names.
MissingParametersError(names) ==
    /\ Outcome.error # JNull
    /\ Outcome.error.code = "MISSING_PARAMETERS"
    /\ Outcome.error.messageValues = JStr(names)

(* C14, as stated: every plain-object input that lacks one of clientId,    *)
(* clientSecret, orgId after normalization gives one MISSING_PARAMETERS    *)
(* error whose message names exactly the missing fields, in the order      *)
(* clientId, clientSecret, orgId.                                          *)
C14_AsStated ==
    (probe # <<>> /\ PlainObject(Input) /\ ~Complete(Input))
        => MissingParametersError(MissingNames(Input))

(* C14, amended: the same for every plain-object input whose scopes is     *)
(* absent or an array; an input whose scopes fails the scopes check gets   *)
(* that error instead.                                                     *)
C14_MissingReported ==
    ( /\ probe # <<>>
      /\ PlainObject(Input)
      /\ (Has(Input, "scopes") => Input.v.scopes.t = "array")
      /\ ~Complete(Input) )
    => MissingParametersError(MissingNames(Input))

\* An input with only a client secret was reported to lack clientId and
\* orgId.
C14_Witness ==
    /\ probe # <<>>
    /\ Input = JObj([clientSecret |-> JStr(s1)])
    /\ Outcome.error # JNull
    /\ Outcome.error.code = "MISSING_PARAMETERS"
    /\ Outcome.error.messageValues
          = JStr(<<"c", "l", "i", "e", "n", "t", "I", "d", ",", " ",
                   "o", "r", "g", "I", "d">>)

\* The camelCase and snake_case names of the three logical fields.
FieldNames ==
    { <<"clientId", "client_id">>, <<"clientSecret", "client_secret">>,
      <<"orgId", "org_id">> }

(* C15, as stated: when the input holds a logical field under both its     *)
(* camelCase and its snake_case name, the normalized credentials hold the  *)
(* camelCase value, whatever the two values are.                           *)
C15_AsStated ==
    (probe # <<>> /\ PlainObject(Input) /\ Outcome.error = JNull)
        => \A names \in FieldNames :
              (Has(Input, names[1]) /\ Has(Input, names[2]))
                  => Outcome.credentials[names[1]] = Input.v[names[1]]

\* What typeof gives for each kind of value: 'object' for null and for
\* arrays as for objects.
ObservedType(x) ==
    CASE x.t = "undefined" -> "undefined"
      [] x.t = "string" -> "string"
      [] x.t = "number" -> "number"
      [] x.t \in {"null", "array", "object"} -> "object"

\* The outcome is a BAD_CREDENTIALS_FORMAT error.
BadCredentialsFormat ==
    Outcome.error # JNull /\ Outcome.error.code = "BAD_CREDENTIALS_FORMAT"

(* C16: validation fails with BAD_CREDENTIALS_FORMAT exactly when the      *)
(* input is not a non-null, non-array object, and the error's detail is    *)
(* the typeof of the input; an object that is neither null nor an array    *)
(* never gets this error.                                                  *)
C16_BadCredentialsFormat ==
    probe # <<>> =>
        /\ BadCredentialsFormat <=> ~PlainObject(Input)
        /\ BadCredentialsFormat =>
              Outcome.error.sdkDetails = [paramsType |-> ObservedType(Input)]

\* An array was refused with the detail 'object'.
C16_Witness ==
    /\ probe # <<>>
    /\ Input = JArr(<<sc_a>>)
    /\ BadCredentialsFormat
    /\ Outcome.error.sdkDetails = [paramsType |-> "object"]

(* C17, as stated: a plain-object input whose scopes field is present and  *)
(* is not an array, whatever its type or value, fails with                 *)
(* BAD_SCOPES_FORMAT and the error's detail is the typeof of the value;    *)
(* scopes is defaulted to [] only when the input has no scopes.            *)
C17_AsStated ==
    ( /\ probe # <<>>
      /\ PlainObject(Input)
      /\ Has(Input, "scopes")
      /\ Input.v.scopes.t # "array" )
    => /\ Outcome.error # JNull
       /\ Outcome.error.code = "BAD_SCOPES_FORMAT"
       /\ Outcome.error.sdkDetails
             = [scopesType |-> ObservedType(Input.v.scopes)]

\* The caller's object as it is after the validation.
InputAfter == probe[1].after

(* C18: validation leaves the caller's input as it was: after the call,    *)
(* whether it succeeded or failed with any of the three errors, the input  *)
(* has the same fields with the same values as before.                     *)
C18_InputUnchanged ==
    probe # <<>> =>
        /\ InputAfter.t = Input.t
        /\ PlainObject(Input) =>
              /\ DOMAIN InputAfter.v = DOMAIN Input.v
              /\ \A name \in DOMAIN Input.v : InputAfter.v[name] = Input.v[name]

\* Snake_case credentials were validated with success and are still held
\* under their snake_case names only.
C18_Witness ==
    /\ probe # <<>>
    /\ Outcome.error = JNull
    /\ Outcome.credentials.clientId = JStr(c2)
    /\ DOMAIN InputAfter.v = {"client_id", "client_secret", "org_id"}
    /\ InputAfter.v.client_id = JStr(c2)

\* The scope list the caller of call c gave, in the caller's order; none
\* given is the empty list.
GivenScopes(c) ==
    IF "scopes" \in DOMAIN c.given.v /\ c.given.v.scopes.t = "array"
    THEN c.given.v.scopes.v
    ELSE <<>>

(* C19, as stated: the request of a generateAccessToken call has a scope   *)
(* field only when the scope list is not empty, and the field's value is   *)
(* the caller's scopes joined by commas in the order the caller gave them, *)
(* not sorted.                                                             *)
C19_AsStated ==
    \A i \in DOMAIN calls :
        calls[i].req # 0 =>
            IF GivenScopes(calls[i]) = <<>>
            THEN Field(calls[i], "scope") = JUndef
            ELSE Field(calls[i], "scope")
                    = JStr(Join(GivenScopes(calls[i]), S_comma))

\* The argument and the request of the one direct call of DirectSpec.
Selector == probe[1].arg.env
Request == fetchLog[probe[1].req]

(* C20: the request goes to the staging base URL if and only if the        *)
(* environment selector is exactly 'stage'; for 'prod', for any other      *)
(* string and for a missing selector it goes to the production base URL;   *)
(* the path is /ims/token/v2 in every case.                                *)
C20_Endpoint ==
    probe # <<>> =>
        IF Selector.t = "string" /\ Selector.v = <<"s", "t", "a", "g", "e">>
        THEN Request.url = "https://ims-na1-stg1.adobelogin.com/ims/token/v2"
        ELSE Request.url = "https://ims-na1.adobelogin.com/ims/token/v2"

\* A call without a selector went to the production endpoint.
C20_Witness ==
    /\ probe # <<>>
    /\ Selector = JUndef
    /\ Request.url = "https://ims-na1.adobelogin.com/ims/token/v2"

\* The provider answered direct call c with a non-success status.
Refused(c) == c.answer.kind = "response" /\ ~c.answer.ok

\* The body of the answer holds a non-empty value under that name.
BodyHas(a, name) ==
    /\ a.data.t = "object"
    /\ name \in DOMAIN a.data.v
    /\ Truthy(a.data.v[name])

\* The message the claim C21 gives the error for answer a.
ProviderMessage(a) ==
    IF BodyHas(a, "error_description") THEN a.data.v.error_description
    ELSE IF BodyHas(a, "error") THEN a.data.v.error
    ELSE JStr(<<"H", "T", "T", "P", " ">> \o Digits(a.status))

(* C21, as stated: a call the provider answers with a non-success status   *)
(* rejects with IMS_TOKEN_ERROR; the message is the body's                 *)
(* error_description if it has one, else its error field if it has one,    *)
(* else 'HTTP <status>'; the detail bag holds the status code; and this is *)
(* so for every body sent with that status.                                *)
C21_AsStated ==
    \A i \in DOMAIN probe :
        Refused(probe[i]) =>
            /\ probe[i].st = "rejected"
            /\ probe[i].error.code = "IMS_TOKEN_ERROR"
            /\ probe[i].error.messageValues = ProviderMessage(probe[i].answer)
            /\ probe[i].error.sdkDetails.statusCode = probe[i].answer.status

\* fetch() or response.json() threw for direct call c.
TransportFailed(c) == c.answer.kind = "throw"

(* C22: a call whose fetch fails rejects with one typed error.  When the    *)
(* transport threw, the error is GENERIC_ERROR, its message is the message  *)
(* of what was thrown and the detail bag holds that message too.  When the  *)
(* provider refused with an object body, the error is the IMS_TOKEN_ERROR   *)
(* built for that answer, not a GENERIC_ERROR around it.                    *)
C22_TypedOnce ==
    \A i \in DOMAIN probe :
        probe[i].st = "rejected" =>
            /\ probe[i].error.name = "AuthSDKError"
            /\ probe[i].error.code \in {"IMS_TOKEN_ERROR", "GENERIC_ERROR"}
            /\ TransportFailed(probe[i]) =>
                  /\ probe[i].error.code = "GENERIC_ERROR"
                  /\ probe[i].error.messageValues = probe[i].answer.message
                  /\ probe[i].error.sdkDetails.originalError = probe[i].answer.message
            /\ (Refused(probe[i]) /\ probe[i].answer.data.t = "object") =>
                  /\ probe[i].error.code = "IMS_TOKEN_ERROR"
                  /\ probe[i].error.sdkDetails.statusCode = probe[i].answer.status

\* One direct call failed in the transport and one was refused by the
\* provider.
C22_Witness ==
    /\ Len(probe) = 2
    /\ probe[1].st = "rejected" /\ TransportFailed(probe[1])
    /\ probe[1].error.code = "GENERIC_ERROR"
    /\ probe[2].st = "rejected" /\ Refused(probe[2])
    /\ probe[2].error.code = "IMS_TOKEN_ERROR"

\* The fields of a detail bag that hold values of the caller or the
\* provider; the others hold type names and the status.
ValueFields ==
    {"clientId", "clientSecret", "client_secret", "orgId", "scopes", "imsEnv",
     "originalError", "error", "errorDescription", "xDebugId"}

\* The detail bag of error e holds neither a field for the client secret nor
\* the value secret in a field or in a listed scope.
KeepsSecret(e, secret) ==
    /\ DOMAIN e.sdkDetails \cap {"clientSecret", "client_secret"} = {}
    /\ \A f \in DOMAIN e.sdkDetails \cap ValueFields :
          /\ e.sdkDetails[f] # secret
          /\ e.sdkDetails[f].t = "array" =>
                \A n \in DOMAIN e.sdkDetails[f].v : JStr(e.sdkDetails[f].v[n]) # secret

\* The client secret the caller of call c presented, if any.
SecretOf(c) ==
    IF c.given.t = "object" /\ "clientSecret" \in DOMAIN c.given.v
    THEN c.given.v.clientSecret
    ELSE JUndef

(* C23: no error of a generateAccessToken call or of a direct call, from   *)
(* the validation or from the fetch, has the client secret in its detail   *)
(* bag.                                                                    *)
C23_NoSecretInDetails ==
    /\ \A i \in DOMAIN calls :
          (calls[i].error # JNull /\ SecretOf(calls[i]).t = "string")
              => KeepsSecret(calls[i].error, SecretOf(calls[i]))
    /\ \A i \in DOMAIN probe :
          probe[i].error # JNull
              => KeepsSecret(probe[i].error, probe[i].arg.clientSecret)

\* A call with a secret and without an org id failed the validation, a
\* second one was refused by the provider, and a direct call failed in the
\* transport.
C23_Witness ==
    /\ Len(calls) = 2 /\ Len(probe) >= 1
    /\ calls[1].error # JNull /\ calls[1].error.code = "MISSING_PARAMETERS"
    /\ SecretOf(calls[1]) = JStr(s1)
    /\ calls[2].error # JNull /\ calls[2].error.code = "IMS_TOKEN_ERROR"
    /\ probe[1].error # JNull /\ probe[1].error.code = "GENERIC_ERROR"

\* The calls, cached and direct, that made request r.
Issuers(r) ==
    {<<"cached", i>> : i \in {j \in DOMAIN calls : calls[j].req = r}}
    \cup {<<"direct", i>> : i \in {j \in DOMAIN probe : probe[j].req = r}}

\* Every request was made by one call, and a direct call that returned
\* returned the body of the answer to its own request.
C24_OwnRequest ==
    /\ \A r \in DOMAIN fetchLog : Cardinality(Issuers(r)) = 1
    /\ \A i \in DOMAIN probe :
          /\ probe[i].req \in DOMAIN fetchLog
          /\ probe[i].st = "resolved" => probe[i].value = probe[i].answer.data

\* A step that starts a generateAccessToken call makes at most one request;
\* a step that starts a direct call makes exactly one and leaves the cache
\* as it is; a step that settles a call makes no request, and leaves the
\* cache as it is when the call is a direct one.
C24_OneRequestPerStep ==
    /\ Len(fetchLog') <= Len(fetchLog) + 1
    /\ (Len(calls') = Len(calls) /\ Len(probe') = Len(probe)) => fetchLog' = fetchLog
    /\ Len(probe') = Len(probe) + 1 =>
          /\ Len(fetchLog') = Len(fetchLog) + 1
          /\ probe'[Len(probe')].req = Len(fetchLog')
    /\ probe' # probe => tokenCache' = tokenCache

(* C24: every generateAccessToken call makes at most one network request   *)
(* and none after its request failed; every direct call of                 *)
(* getAccessTokenByClientCredentials makes exactly one request, whatever   *)
(* calls came before and whatever the cache holds, returns what that       *)
(* request was answered, and leaves the cache as it is.                    *)
C24_RequestsPerCall == []C24_OwnRequest /\ [][C24_OneRequestPerStep]_vars

\* A token is cached for the credentials of two direct calls, and each of
\* the two made a request of its own.
C24_Witness ==
    /\ Len(calls) >= 1 /\ calls[1].st = "resolved" /\ calls[1].req = 1
    /\ calls[1].cacheKey \in DOMAIN tokenCache
    /\ Len(probe) = 2
    /\ getCacheKey(probe[1].cred) = calls[1].cacheKey
    /\ probe[1].req = 2 /\ probe[2].req = 3
    /\ probe[2].st = "resolved"

\* The last invalidateCache() returned before call j started.
StartedAfterInvalidation(j) == probe # <<>> /\ j > probe[1].calls

\* Request r was made after the last invalidateCache() returned.
MadeAfterInvalidation(r) == probe # <<>> /\ r > probe[1].requests

(* C25, as stated: a token returned by a generateAccessToken call that     *)
(* started after invalidateCache() returned is the answer to a request     *)
(* made after that invalidateCache(), also when a call with the same key   *)
(* had a request in flight when the cache was invalidated.                 *)
C25_AsStated ==
    \A j \in DOMAIN calls :
        (StartedAfterInvalidation(j) /\ calls[j].st = "resolved")
            => \E r \in DOMAIN fetchLog :
                  MadeAfterInvalidation(r) /\ calls[j].value = Token(r)

\* Call c's fetch succeeded, whatever the body.
Succeeded(c) == c.st = "resolved" /\ c.req # 0

(* C26, as stated: after a call succeeded with body v, a call that repeats *)
(* it within the TTL, with no invalidateCache and no other store under the *)
(* key in between, is a cache hit that returns v without a request, also   *)
(* when v is null, 0 or the empty string.                                  *)
C26_AsStated ==
    [][ Started =>
          \A i \in DOMAIN calls :
             ( /\ Succeeded(calls[i]) /\ Repeats(calls[i])
               /\ calls[i].live /\ calls[i].sole
               /\ now < calls[i].t1 + FiveMinutes )
             => ServedFrom(i)
      ]_vars

\* The variant an environment selector resolves to: stage for 'stage', prod
\* for every other string.
Variant(env) == IF env.t = "string" /\ env.v = <<"s", "t", "a", "g", "e">>
                THEN "stage" ELSE "prod"

\* The call that starts has the credentials and scopes of call c and a
\* selector that resolves to the variant of c's.
RepeatsInVariant(c) ==
    /\ c.lookedUp /\ Latest.lookedUp
    /\ Latest.given = c.given
    /\ Variant(Latest.credAndEnv.env) = Variant(c.credAndEnv.env)

(* C27, as stated: a call with the credentials and scopes of a call that   *)
(* fetched a token, and with a selector that resolves to the same variant  *)
(* (as 'prod' and an unknown string do), made within the TTL, shares the   *)
(* cache entry: it returns that token without a request.                   *)
C27_AsStated ==
    [][ Started =>
          \A i \in DOMAIN calls :
             ( /\ Fetched(calls[i]) /\ RepeatsInVariant(calls[i])
               /\ calls[i].live /\ calls[i].sole
               /\ now < calls[i].t1 + FiveMinutes )
             => ServedFrom(i)
      ]_vars

(* C28, as stated: after a generateAccessToken call, whether it was served *)
(* from the cache, fetched a token or failed to, the array the caller      *)
(* passed as scopes holds the same elements in the same order as before    *)
(* the call.                                                               *)
C28_AsStated ==
    \A i \in DOMAIN calls :
        (calls[i].given.t = "object" /\ "scopes" \in DOMAIN calls[i].given.v)
            => calls[i].params.v.scopes = calls[i].given.v.scopes

\* Calls c and d present the same clientId, orgId, environment and scopes
\* and different client secrets.
OtherSecret(c, d) ==
    /\ c.lookedUp /\ d.lookedUp
    /\ c.credAndEnv.clientId = d.credAndEnv.clientId
    /\ c.credAndEnv.orgId = d.credAndEnv.orgId
    /\ c.credAndEnv.env = d.credAndEnv.env
    /\ c.credAndEnv.scopes = d.credAndEnv.scopes
    /\ c.credAndEnv.clientSecret # d.credAndEnv.clientSecret

(* C29: the client secret takes part in the cache key.  A call that        *)
(* presents another client secret than an earlier call, with the same      *)
(* clientId, orgId, environment and scopes, has another key and is not     *)
(* given the token fetched for the earlier call; when no earlier call      *)
(* presented its secret, it misses the cache and sends a request of its    *)
(* own.                                                                    *)
C29_SecretInKey ==
    [][ (Started /\ Latest.lookedUp) =>
          /\ \A i \in DOMAIN calls :
                OtherSecret(calls[i], Latest) =>
                    /\ calls[i].cacheKey # Latest.cacheKey
                    /\ Fetched(calls[i]) => Latest.value # calls[i].value
          /\ ( /\ \E i \in DOMAIN calls : OtherSecret(calls[i], Latest)
               /\ \A i \in DOMAIN calls :
                     calls[i].lookedUp =>
                        calls[i].credAndEnv.clientSecret
                           # Latest.credAndEnv.clientSecret )
             => StartsFetch
      ]_vars

\* A token was fetched and cached for one secret, and the call with the
\* other secret fetched a token of its own.
C29_Witness ==
    /\ Len(calls) = 2
    /\ OtherSecret(calls[1], calls[2])
    /\ Fetched(calls[1]) /\ calls[1].value = Token(1)
    /\ calls[1].cacheKey \in DOMAIN tokenCache
    /\ calls[2].req = 2 /\ Fetched(calls[2]) /\ calls[2].value = Token(2)

\* The request of call c was made with the credentials and scopes of c.
RequestOf(c) ==
    /\ c.req \in DOMAIN fetchLog
    /\ Field(c, "client_id") = c.credAndEnv.clientId
    /\ Field(c, "client_secret") = c.credAndEnv.clientSecret
    /\ Field(c, "org_id") = c.credAndEnv.orgId
    /\ Field(c, "scope") = JStr(Join(c.credAndEnv.scopes.v, S_comma))
    /\ fetchLog[c.req].url = getImsUrl(c.credAndEnv.env) \o "/ims/token/v2"

\* Call c made the request that value is the successful answer to, with
\* credentials, environment and scopes that derive key.
Source(c, key, value) ==
    /\ Succeeded(c) /\ ~c.hit
    /\ RequestOf(c)
    /\ getCacheKey(c.credAndEnv) = key
    /\ c.value = value
    /\ value \in Bodies(c.req)

(* C30: in every reachable state, whatever the interleaving of calls,      *)
(* answers and invalidations, each entry of the cache holds the body of a  *)
(* successful answer to a request made with credentials, environment and   *)
(* scopes that derive the entry's key: never an error, never the answer to *)
(* a request for another key, never a value the provider did not return.   *)
C30_EntriesAreOwnAnswers ==
    \A key \in DOMAIN tokenCache :
        \E i \in DOMAIN calls : Source(calls[i], key, tokenCache[key].value)

\* After a refused request, the cache holds two entries, one of them the
\* body null.
C30_Witness ==
    /\ Cardinality(DOMAIN tokenCache) = 2
    /\ \E key \in DOMAIN tokenCache : tokenCache[key].value = JNull
    /\ \E key \in DOMAIN tokenCache : tokenCache[key].value.t = "object"
    /\ \E i \in DOMAIN calls : FailedFetch(calls[i])

====
